---- MODULE Spec2Model ----
(***************************************************************************)
(* A model of the metastr header (src/include/metastr.hh) and of the       *)
(* label lookup of the named-tuple layer that uses it                      *)
(* (src/test/test_metastr.hh, second half).                                *)
(*                                                                         *)
(* A buffer `Char str[N]` is a sequence of N code units; C++ index i is    *)
(* TLA+ index i + 1.  Every function of the header is pure, so each        *)
(* specification below is a harness: from the idle state a call picks its  *)
(* arguments from bounded sets and the following steps run the function.   *)
(* The two transcoding loops run one iteration per step.                   *)
(***************************************************************************)
EXTENDS Integers, Sequences, FiniteSets, TLC

VARIABLES
    pc,         \* position of the harness: "idle", then the function's own
    lhs,        \* operator==: this->str
    rhs,        \* operator==: other (array, other.str, or the view's units)
    rhs_kind,   \* operator==: "array" | "metastr" | "view"
    eq_ret,     \* operator==: value of lhs == rhs
    eq_rev,     \* operator==: value of rhs == lhs (metastr operands only)
    u_str,      \* transcoding: the input buffer u32str.str / u16str.str
    enc,        \* transcoding: "utf32" | "utf16"
    checked,    \* transcoding: TRUE iff NDEBUG is not defined
    i,          \* transcoding: units of the input consumed so far
    index,      \* transcoding: next write position in res.str
    res,        \* transcoding: res.str
    ret,        \* transcoding: the returned buffer, "none" before a return
    ub,         \* transcoding: "none" | "read" | "write" (out-of-bounds access)
    dec,        \* transcoding: the surrogate pairs decoded so far
    cat_args,   \* concat: the argument buffers
    cat_ret,    \* concat: <<outcome, the returned buffer>>
    nt_names,   \* namedtuple: the names of the slots
    nt_label,   \* namedtuple: the label given to get
    get_ret,    \* namedtuple: what get resolved to, <<outcome, index>>
    held,       \* composition: <<family, buffer>> of the metastr at hand
    made_by     \* composition: the operations that made it, oldest first

vars == <<pc, lhs, rhs, rhs_kind, eq_ret, eq_rev, u_str, enc, checked, i, index,
          res, ret, ub, dec, cat_args, cat_ret, nt_names, nt_label, get_ret,
          held, made_by>>

eq_vars == <<lhs, rhs, rhs_kind, eq_ret, eq_rev>>
cvt_vars == <<u_str, enc, checked, i, index, res, ret, ub, dec>>
cat_vars == <<cat_args, cat_ret>>
get_vars == <<nt_names, nt_label, get_ret>>
mk_vars == <<held, made_by>>

----------------------------------------------------------------------------
(* Bounds of the model.                                                    *)

\* Largest declared length N of a buffer given to operator==, concat or get.
MaxLen == 3
\* Largest declared length N of a buffer given to code_cvt.
MaxCvtLen == 3
\* Largest number of arguments of a concat call.
MaxStrs == 3
\* Largest number of slots of a namedtuple.
MaxNames == 2

\* Code units of the narrow buffers: the terminator, 'a' and 'b'.
Chars == {0, 97, 98}

\* UTF-32 code units tried, around the ends of the branches of utf32to8.
\*   0x0 0x41 0x80 0x800 0xd800 0xdfff 0xe000 0x10000 0x10ffff 0x110000
Units32 == {0, 65, 128, 2048, 55296, 57343, 57344, 65536, 1114111, 1114112}

\* UTF-16 code units tried, around the ends of the branches of utf16to8.
\*   0x0 0x41 0x80 0x800 0xd800 0xd83d 0xdbff 0xdc00 0xde00 0xdfff
Units16 == {0, 65, 128, 2048, 55296, 55357, 56319, 56320, 56832, 57343}

\* Surrogate pairs tried by the decode step alone: every lead surrogate with
\* three trail surrogates, and every trail surrogate with three leads.
\*   leads 0xd800..0xdbff, trails 0xdc00..0xdfff
PairsTried ==
    ((55296..56319) \X {56320, 56832, 57343})
        \cup ({55296, 55357, 56319} \X (56320..57343))

----------------------------------------------------------------------------
(* Constants of details::transcoding.                                      *)

LEAD_SURROGATE_MIN == 55296
LEAD_SURROGATE_MAX == 56319
TRAIL_SURROGATE_MIN == 56320
TRAIL_SURROGATE_MAX == 57343
CODE_POINT_MAX == 1114111
\* char32_t{0xfca02400u} as its two 16-bit halves <<0xfca0, 0x2400>>: the
\* value itself is above the largest integer TLC evaluates.
SURROGATE_OFFSET == <<64672, 9216>>

----------------------------------------------------------------------------
(* Machine arithmetic.                                                     *)

RECURSIVE BitOr(_, _)
\* a | b on naturals
BitOr(a, b) ==
    IF a = 0 THEN b
    ELSE IF b = 0 THEN a
    ELSE (IF a % 2 = 1 \/ b % 2 = 1 THEN 1 ELSE 0) + 2 * BitOr(a \div 2, b \div 2)

RECURSIVE BitAnd(_, _)
\* a & b on naturals
BitAnd(a, b) ==
    IF a = 0 \/ b = 0 THEN 0
    ELSE (IF a % 2 = 1 /\ b % 2 = 1 THEN 1 ELSE 0) + 2 * BitAnd(a \div 2, b \div 2)

RECURSIVE Pow2(_)
Pow2(k) == IF k = 0 THEN 1 ELSE 2 * Pow2(k - 1)

\* a >> k on naturals
Shr(a, k) == a \div Pow2(k)

\* static_cast<u8_type>(x): the low 8 bits
ToU8(x) == x % 256

\* An unsigned 32-bit value as its halves <<high 16 bits, low 16 bits>>.
Halves(x) == <<x \div 65536, x % 65536>>

\* Unsigned 32-bit addition, wrapping modulo 2^32, on halves.
Add32(a, b) ==
    LET lo == a[2] + b[2]
        hi == a[1] + b[1] + (lo \div 65536)
    IN  <<hi % 65536, lo % 65536>>

\* The value of a pair of halves.
FromHalves(h) == h[1] * 65536 + h[2]

\* The buffers Char[N] over the units S.
Arrays(S, N) == [1..N -> S]

\* A value-initialised buffer Char tmp_[N]{}.
Zeros(N) == [k \in 1..N |-> 0]

----------------------------------------------------------------------------
(* struct metastr: construction and operator==.                            *)

\* What undefined behaviour can turn a comparison into: either answer, or a
\* fault (a trap at run time, a rejected constant expression at compile time).
Undefined == {"true", "false", "fault"}

\* The answer of a comparison whose behaviour is defined.
Answer(b) == IF b THEN {"true"} ELSE {"false"}

\* metastr(Char const (&arr)[N]): std::copy(arr, arr + N - 1, str) into the
\* value-initialised str, so str[N - 1] stays 0.
metastr(arr) == [k \in 1..Len(arr) |-> IF k < Len(arr) THEN arr[k] ELSE 0]

\* The metastr objects of declared length N built from literals over S.
Metastrs(S, N) == {metastr(arr) : arr \in Arrays(S, N)}

\* std::equal(first1, first1 + cnt, first2) for cnt >= 0.
std_equal(first1, cnt, first2) == \A k \in 1..cnt : first1[k] = first2[k]

\* operator==(Char_r const (&other)[N_r]).  With N = 1 (or N_r = 1 in the
\* else branch) the end pointer str + N - 2 lies before the array.
eq_array(str, other) ==
    LET N == Len(str)
        N_r == Len(other)
    IN  IF N <= N_r
        THEN IF N < 2 THEN Undefined
             ELSE IF ~std_equal(str, N - 2, other) THEN Answer(FALSE)
             ELSE Answer(\A j \in (N - 1)..(N_r - 1) : other[j + 1] = 0)
        ELSE IF N_r < 2 THEN Undefined
             ELSE IF ~std_equal(other, N_r - 2, str) THEN Answer(FALSE)
             ELSE Answer(\A j \in (N_r - 1)..(N - 1) : str[j + 1] = 0)

\* operator==(metastr<Char_r, N_r> const& other): *this == other.str
eq_metastr(str, other_str) == eq_array(str, other_str)

\* operator==(std::basic_string_view<Char_r> const& other); other is the
\* sequence of the view's other.size() units.  An empty view makes
\* other.end() - 1 a pointer before other.begin().
eq_view(str, other) ==
    LET N == Len(str)
        S == Len(other)
    IN  IF N <= S
        THEN IF N < 2 THEN Undefined
             ELSE IF ~std_equal(str, N - 2, other) THEN Answer(FALSE)
             ELSE Answer(\A j \in (N - 1)..(S - 1) : other[j + 1] = 0)
        ELSE IF S < 1 THEN Undefined
             ELSE IF ~std_equal(other, S - 1, str) THEN Answer(FALSE)
             ELSE Answer(\A j \in S..(N - 1) : str[j + 1] = 0)

\* operator==(std::basic_string<Char_r> const other): the view of other
eq_string(str, other) == eq_view(str, other)

\* metastr{arr} == other, other a raw array
CompareArray ==
    /\ pc = "idle"
    /\ \E N \in 1..MaxLen, N_r \in 1..MaxLen :
         \E arr \in Arrays(Chars, N), other \in Arrays(Chars, N_r) :
           /\ lhs' = metastr(arr)
           /\ rhs' = other
           /\ eq_ret' \in eq_array(metastr(arr), other)
    /\ rhs_kind' = "array"
    /\ eq_rev' = "none"
    /\ pc' = "compared"
    /\ UNCHANGED <<cvt_vars, cat_vars, get_vars, mk_vars>>

\* a == b and b == a, both metastr objects
CompareMetastr ==
    /\ pc = "idle"
    /\ \E N \in 1..MaxLen, N_r \in 1..MaxLen :
         \E a \in Metastrs(Chars, N), b \in Metastrs(Chars, N_r) :
           /\ lhs' = a
           /\ rhs' = b
           /\ eq_ret' \in eq_metastr(a, b)
           /\ eq_rev' \in eq_metastr(b, a)
    /\ rhs_kind' = "metastr"
    /\ pc' = "compared"
    /\ UNCHANGED <<cvt_vars, cat_vars, get_vars, mk_vars>>

\* metastr{arr} == other, other a std::basic_string_view or std::basic_string
CompareView ==
    /\ pc = "idle"
    /\ \E N \in 1..MaxLen, S \in 0..MaxLen :
         \E a \in Metastrs(Chars, N), other \in Arrays(Chars, S) :
           /\ lhs' = a
           /\ rhs' = other
           /\ eq_ret' \in eq_string(a, other)
    /\ rhs_kind' = "view"
    /\ eq_rev' = "none"
    /\ pc' = "compared"
    /\ UNCHANGED <<cvt_vars, cat_vars, get_vars, mk_vars>>

----------------------------------------------------------------------------
(* details::transcoding: utf32to8 and utf16to8.                            *)

\* fatal_error::terminate(): the process stops there, for good.
terminate == "terminated"

\* utf32to8's test with the lower end of the surrogate range excluded.
utf32_rejects_open(u32chr) ==
    \/ u32chr > CODE_POINT_MAX
    \/ u32chr > LEAD_SURROGATE_MIN /\ u32chr <= TRAIL_SURROGATE_MAX

\* utf32to8, the checked-mode test of one unit: above CODE_POINT_MAX, or in
\* [LEAD_SURROGATE_MIN, TRAIL_SURROGATE_MAX].
utf32_rejects(u32chr) ==
    \/ u32chr > CODE_POINT_MAX
    \/ u32chr >= LEAD_SURROGATE_MIN /\ u32chr <= TRAIL_SURROGATE_MAX

\* utf32to8, the units written for one u32chr.
utf32_emit(u32chr) ==
    IF u32chr < 128 THEN <<ToU8(u32chr)>>
    ELSE IF u32chr < 2048 THEN
        <<ToU8(BitOr(Shr(u32chr, 6), 192)),
          ToU8(BitOr(BitAnd(u32chr, 63), 128))>>
    ELSE IF u32chr < 65536 THEN
        <<ToU8(BitOr(Shr(u32chr, 12), 224)),
          ToU8(BitOr(BitAnd(Shr(u32chr, 6), 63), 128)),
          ToU8(BitOr(BitAnd(u32chr, 63), 128))>>
    ELSE
        <<ToU8(BitOr(Shr(u32chr, 18), 240)),
          ToU8(BitOr(BitAnd(Shr(u32chr, 12), 63), 128)),
          ToU8(BitAnd(Shr(u32chr, 6), 63)),
          ToU8(BitOr(BitAnd(u32chr, 63), 128))>>

\* utf16to8, the first checked-mode test: the unit read is a trail surrogate.
utf16_lone_trail(u32chr) ==
    u32chr >= TRAIL_SURROGATE_MIN /\ u32chr <= TRAIL_SURROGATE_MAX

\* utf16to8: the unit read is a lead surrogate.
utf16_is_lead(u32chr) ==
    u32chr >= LEAD_SURROGATE_MIN /\ u32chr <= LEAD_SURROGATE_MAX

\* utf16to8's end test, one position late.
utf16_at_end_late(idx, N) == idx > N

\* utf16to8, the second checked-mode test: no unit is left after the lead.
utf16_at_end(idx, N) == idx >= N

\* utf16to8, the third checked-mode test: the unit after the lead is no trail
\* surrogate.
utf16_bad_trail(trail_surrogate) ==
    \/ trail_surrogate < TRAIL_SURROGATE_MIN
    \/ trail_surrogate > TRAIL_SURROGATE_MAX

\* utf16to8's combination with an offset that leaves out TRAIL_SURROGATE_MIN:
\* 0x10000 - (LEAD_SURROGATE_MIN << 10) = 0xfca10000.
utf16_combine_high(u32chr, trail_surrogate) ==
    FromHalves(Add32(Add32(Halves(u32chr * 1024), Halves(trail_surrogate)),
                     <<64673, 0>>))

\* utf16to8: (u32chr << 10) + trail_surrogate + SURROGATE_OFFSET, in unsigned
\* 32-bit arithmetic.
utf16_combine(u32chr, trail_surrogate) ==
    FromHalves(Add32(Add32(Halves(u32chr * 1024), Halves(trail_surrogate)),
                     SURROGATE_OFFSET))

\* utf16to8, the units written for one u32chr.
utf16_emit(u32chr) ==
    IF u32chr < 128 THEN <<ToU8(u32chr)>>
    ELSE IF u32chr < 2048 THEN
        <<ToU8(BitOr(Shr(u32chr, 6), 192)),
          ToU8(BitOr(BitAnd(u32chr, 63), 128))>>
    ELSE IF u32chr < 65536 THEN
        <<ToU8(BitOr(Shr(u32chr, 12), 224)),
          ToU8(BitOr(BitAnd(Shr(u32chr, 6), 63), 128)),
          ToU8(BitOr(BitAnd(u32chr, 63), 128))>>
    ELSE
        <<ToU8(BitOr(Shr(u32chr, 18), 240)),
          ToU8(BitOr(BitAnd(Shr(u32chr, 12), 63), 128)),
          ToU8(BitAnd(Shr(u32chr, 6), 63)),
          ToU8(BitOr(BitAnd(u32chr, 63), 128))>>

\* res.str[index++] = b for each b of bytes in turn.  A store at or past the
\* end of res.str is out of bounds and leaves res.str as it is.
Store(buf, at, bytes) ==
    [k \in 1..Len(buf) |->
        IF k > at /\ k <= at + Len(bytes) THEN bytes[k - at] ELSE buf[k]]

\* Whether Store(buf, at, bytes) writes past the end of buf.
Overflows(buf, at, bytes) == at + Len(bytes) > Len(buf)

\* What follows a step of a loop: an out-of-bounds access either faults or
\* goes unnoticed, and the loop goes on.
After(loop, out_of_bounds) == IF out_of_bounds THEN {loop, "fault"} ELSE {loop}

\* The declared length of res: `Char8 tmp_[N * 4 - 3]{}`, sized for three
\* units to a unit.
res_size_three(N) == 3 * N - 2

\* The declared length of res: `Char8 tmp_[N * 4 - 3]{}`.
res_size(N) == 4 * N - 3

\* code_cvt<Char_r>(str), from a UTF-32 or UTF-16 buffer to UTF-8: the entry
\* of utf32to8 / utf16to8, up to the loop.  The buffer is the str member of
\* the argument: any N units, the member being public.
code_cvt ==
    /\ pc = "idle"
    /\ \E N \in 1..MaxCvtLen, e \in {"utf32", "utf16"}, chk \in BOOLEAN :
         \E str \in Arrays(IF e = "utf32" THEN Units32 ELSE Units16, N) :
           /\ u_str' = str
           /\ enc' = e
           /\ checked' = chk
           /\ res' = metastr(Zeros(res_size(N)))
           /\ pc' = IF e = "utf32" THEN "utf32to8" ELSE "utf16to8"
    /\ i' = 0
    /\ index' = 0
    /\ ret' = "none"
    /\ ub' = "none"
    /\ dec' = <<>>
    /\ UNCHANGED <<eq_vars, cat_vars, get_vars, mk_vars>>

\* utf32to8: one iteration of `for (auto u32chr : u32str.str)`.
utf32to8_loop ==
    /\ pc = "utf32to8"
    /\ i < Len(u_str)
    /\ LET u32chr == u_str[i + 1]
           bytes == utf32_emit(u32chr)
       IN  IF checked /\ utf32_rejects(u32chr)
           THEN /\ pc' = terminate
                /\ UNCHANGED <<i, index, res, ub>>
           ELSE /\ i' = i + 1
                /\ res' = Store(res, index, bytes)
                /\ index' = index + Len(bytes)
                /\ ub' = IF Overflows(res, index, bytes) THEN "write" ELSE ub
                /\ pc' \in After("utf32to8", Overflows(res, index, bytes))
    /\ UNCHANGED <<u_str, enc, checked, ret, dec, eq_vars, cat_vars, get_vars, mk_vars>>

\* utf32to8: `return res;`
utf32to8_return ==
    /\ pc = "utf32to8"
    /\ i >= Len(u_str)
    /\ ret' = res
    /\ pc' = "returned"
    /\ UNCHANGED <<u_str, enc, checked, i, index, res, ub, dec,
                   eq_vars, cat_vars, get_vars, mk_vars>>

\* utf16to8: one iteration of `for (std::size_t i{}; i < N;)`.  `beyond` is
\* what a read of u16str.str[N] finds.
utf16to8_loop ==
    /\ pc = "utf16to8"
    /\ i < Len(u_str)
    /\ \E beyond \in Units16 :
         LET N == Len(u_str)
             u32chr == BitAnd(u_str[i + 1], 65535)
             is_lead == utf16_is_lead(u32chr)
             stops == checked /\ (\/ utf16_lone_trail(u32chr)
                                  \/ is_lead /\ utf16_at_end(i + 1, N))
             past == is_lead /\ ~stops /\ i + 1 >= N
             trail_surrogate ==
                 BitAnd(IF i + 1 >= N THEN beyond ELSE u_str[i + 2], 65535)
             scalar == IF is_lead THEN utf16_combine(u32chr, trail_surrogate)
                       ELSE u32chr
             bytes == utf16_emit(scalar)
             aborts ==
                 stops \/ (checked /\ is_lead /\ utf16_bad_trail(trail_surrogate))
         IN  /\ ~past => beyond = 0
             /\ IF aborts
                THEN /\ pc' = terminate
                     /\ ub' = IF past THEN "read" ELSE ub
                     /\ UNCHANGED <<i, index, res, dec>>
                ELSE /\ i' = IF is_lead THEN i + 2 ELSE i + 1
                     /\ dec' = IF is_lead
                               THEN Append(dec, <<u32chr, trail_surrogate, scalar>>)
                               ELSE dec
                     /\ res' = Store(res, index, bytes)
                     /\ index' = index + Len(bytes)
                     /\ ub' = IF past THEN "read"
                              ELSE IF Overflows(res, index, bytes) THEN "write"
                              ELSE ub
                     /\ pc' \in After("utf16to8",
                                      past \/ Overflows(res, index, bytes))
    /\ UNCHANGED <<u_str, enc, checked, ret, eq_vars, cat_vars, get_vars, mk_vars>>

\* utf16to8: `return res;`
utf16to8_return ==
    /\ pc = "utf16to8"
    /\ i >= Len(u_str)
    /\ ret' = res
    /\ pc' = "returned"
    /\ UNCHANGED <<u_str, enc, checked, i, index, res, ub, dec,
                   eq_vars, cat_vars, get_vars, mk_vars>>

\* utf16to8, the decode step alone: a lead surrogate has been read as u32chr
\* and the trail surrogate after it, and the two are combined.
utf16to8_decode ==
    /\ pc = "idle"
    /\ \E pair \in PairsTried :
         dec' = <<<<pair[1], pair[2], utf16_combine(pair[1], pair[2])>>>>
    /\ pc' = "decoded"
    /\ UNCHANGED <<u_str, enc, checked, i, index, res, ret, ub,
                   eq_vars, cat_vars, get_vars, mk_vars>>

----------------------------------------------------------------------------
(* concat.                                                                 *)

\* std::copy(src, src + cnt, buf + at)
Copy(buf, at, src, cnt) ==
    [k \in 1..Len(buf) |-> IF k > at /\ k <= at + cnt THEN src[k - at] ELSE buf[k]]

RECURSIVE SumLen(_)
\* (Strs::len + ...)
SumLen(strs) == IF strs = <<>> THEN 0 ELSE Len(Head(strs)) + SumLen(Tail(strs))

RECURSIVE concat_fold(_, _, _, _, _, _)
\* The comma fold of concat over strs..., from its j-th argument on:
\*   std::copy(strs.str, strs.str + Strs::len - 1,
\*             (offset += lens[index++], res.str + offset))
concat_fold(strs, lens, j, idx, offset, buf) ==
    IF j > Len(strs) THEN buf
    ELSE LET at == offset + lens[idx + 1]
         IN  concat_fold(strs, lens, j + 1, idx + 1, at,
                         Copy(buf, at, strs[j], Len(strs[j]) - 1))

\* concat(Str1 const& str1, Strs const&... strs) on metastr objects, as
\* <<outcome, res.str>>.  With a single argument Strs is empty and the fold
\* (Strs::len + ...) over + has no value: the call is ill-formed.
concat_metastr(strs) ==
    IF Len(strs) < 2 THEN <<"ill-formed", <<>>>>
    ELSE LET cap == Len(strs[1]) + SumLen(Tail(strs)) - (Len(strs) - 1)
             lens == [j \in 1..Len(strs) |-> Len(strs[j]) - 1]
             first == Copy(metastr(Zeros(cap)), 0, strs[1], Len(strs[1]) - 1)
         IN  <<"metastr", concat_fold(strs, lens, 2, 0, 0, first)>>

\* concat(T const&... strs): a raw literal is wrapped as metastr{strs}, a
\* metastr is passed on, and the overload above does the rest.
concat(strs) == concat_metastr([j \in 1..Len(strs) |-> metastr(strs[j])])

\* The arguments of a concat call: k buffers of one character class.
ConcatArgs(k) == [1..k -> UNION {Arrays(Chars \ {0}, N - 1) : N \in 1..MaxLen}]

\* concat(strs...) with 1..MaxStrs literals
Concat ==
    /\ pc = "idle"
    /\ \E k \in 1..MaxStrs :
         \E lits \in ConcatArgs(k) :
           LET strs == [j \in 1..k |-> Append(lits[j], 0)]
           IN  /\ cat_args' = strs
               /\ cat_ret' = concat(strs)
    /\ pc' = "concatenated"
    /\ UNCHANGED <<eq_vars, cvt_vars, get_vars, mk_vars>>

----------------------------------------------------------------------------
(* namedtuple: names, get_name and get<label>.                             *)

RECURSIVE strlen(_)
\* std::char_traits::length: the units before the first zero
strlen(str) ==
    IF str = <<>> \/ Head(str) = 0 THEN 0 ELSE 1 + strlen(Tail(str))

\* names<First, Rest...>::current_val: std::basic_string_view{First.str}
current_val(First) == SubSeq(First, 1, strlen(First))

\* get_size<Names>()
get_size(Names) == Len(Names)

\* get_name<N, Names>(): the current_val of the N-th name
get_name(N, Names) == current_val(Names[N + 1])

RECURSIVE get(_, _, _)
\* get<str, index>(nt): what the call resolves to, as <<outcome, index>>:
\* the slot returned, the static_assert "index out of range", or a fault of
\* the comparison.  The comparison get_name<index, Names>() == str is
\* str.operator==(view) with the operands reversed.
get(str, Names, idx) ==
    IF ~(idx < get_size(Names)) THEN {<<"index out of range", idx>>}
    ELSE UNION {IF a = "true" THEN {<<"slot", idx>>}
                ELSE IF a = "false" THEN get(str, Names, idx + 1)
                ELSE {<<"fault", idx>>} : a \in eq_view(str, get_name(idx, Names))}

\* The labels: the literals of declared length 1..MaxLen without a zero
\* before the terminator.
Labels == {Append(s, 0) : s \in UNION {Arrays(Chars \ {0}, N - 1) : N \in 1..MaxLen}}

\* make_namedtuple<Str...>(args...) with pairwise distinct names, then
\* get<str>(nt)
Get ==
    /\ pc = "idle"
    /\ \E n \in 1..MaxNames :
         \E Names \in [1..n -> Labels], str \in Labels :
           /\ \A a, b \in 1..n : a # b => Names[a] # Names[b]
           /\ nt_names' = Names
           /\ nt_label' = str
           /\ get_ret' \in get(str, Names, 0)
    /\ pc' = "got"
    /\ UNCHANGED <<eq_vars, cvt_vars, cat_vars, mk_vars>>

----------------------------------------------------------------------------
(* Compositions of construction, code_cvt and concat.                      *)

\* Largest declared length N of a literal a composition starts from or
\* appends.
MaxLitLen == 2
\* Largest number of code_cvt and concat calls of a composition.
MaxOps == 2

\* The encoding families of code_cvt.
Families == {"utf8", "utf16", "utf32"}

\* The content units of the literals of a family: an ASCII letter; a lead
\* and a trail surrogate; an ASCII letter and the largest scalar value.
LiteralUnits(family) ==
    IF family = "utf8" THEN {97}
    ELSE IF family = "utf16" THEN {55357, 56832}
    ELSE {65, 1114111}

\* The literals of a family of declared length 1..MaxLitLen, as the arrays
\* the compiler makes of them: the content, then the terminator.
Literals(family) ==
    {Append(lit, 0) : lit \in UNION {Arrays(LiteralUnits(family), N - 1) :
                                       N \in 1..MaxLitLen}}

\* code_cvt<Char_r>(str) within one family:
\*   Char_r tmp_[N]{}; std::copy(str.str, str.str + N - 1, tmp_);
\*   return metastr{tmp_};
code_cvt_copy(str) ==
    metastr(Copy(Zeros(Len(str)), 0, str, Len(str) - 1))

\* constexpr auto s = metastr{literal}, in a build with or without NDEBUG.
Construct ==
    /\ pc = "idle"
    /\ \E family \in Families, chk \in BOOLEAN :
         \E arr \in Literals(family) :
           /\ held' = <<family, metastr(arr)>>
           /\ checked' = chk
    /\ made_by' = <<>>
    /\ pc' = "made"
    /\ UNCHANGED <<u_str, enc, i, index, res, ret, ub, dec,
                   eq_vars, cat_vars, get_vars>>

\* code_cvt<Char_r>(s) with Char_r of the family of s.
CvtCopy ==
    /\ pc = "made"
    /\ Len(made_by) < MaxOps
    /\ held' = <<held[1], code_cvt_copy(held[2])>>
    /\ made_by' = Append(made_by, "code_cvt")
    /\ UNCHANGED <<pc, cvt_vars, eq_vars, cat_vars, get_vars>>

\* code_cvt<char8_t>(s) with s of UTF-32 or UTF-16: the entry of utf32to8 /
\* utf16to8, up to the loop.
CvtToUtf8 ==
    /\ pc = "made"
    /\ Len(made_by) < MaxOps
    /\ held[1] \in {"utf32", "utf16"}
    /\ u_str' = held[2]
    /\ enc' = held[1]
    /\ res' = metastr(Zeros(res_size(Len(held[2]))))
    /\ pc' = IF held[1] = "utf32" THEN "utf32to8" ELSE "utf16to8"
    /\ i' = 0
    /\ index' = 0
    /\ ret' = "none"
    /\ ub' = "none"
    /\ dec' = <<>>
    /\ UNCHANGED <<checked, eq_vars, cat_vars, get_vars, mk_vars>>

\* The value code_cvt<char8_t>(s) returned becomes the metastr at hand.
CvtReturned ==
    /\ pc = "returned"
    /\ held[1] # "none"
    /\ held' = <<"utf8", ret>>
    /\ made_by' = Append(made_by, "code_cvt")
    /\ pc' = "made"
    /\ UNCHANGED <<cvt_vars, eq_vars, cat_vars, get_vars>>

\* concat(s, literal), concat(literal, s) or concat(s, s): the literal goes
\* through metastr{strs}, s is passed on.
ConcatHeld ==
    /\ pc = "made"
    /\ Len(made_by) < MaxOps
    /\ \E strs \in {<<held[2], held[2]>>}
                   \cup {<<held[2], metastr(arr)>> : arr \in Literals(held[1])}
                   \cup {<<metastr(arr), held[2]>> : arr \in Literals(held[1])} :
         /\ cat_args' = strs
         /\ cat_ret' = concat_metastr(strs)
         /\ held' = <<held[1], concat_metastr(strs)[2]>>
    /\ made_by' = Append(made_by, "concat")
    /\ UNCHANGED <<pc, cvt_vars, eq_vars, get_vars>>

----------------------------------------------------------------------------
(* Specifications.                                                         *)

Init ==
    /\ pc = "idle"
    /\ lhs = <<>> /\ rhs = <<>> /\ rhs_kind = "none"
    /\ eq_ret = "none" /\ eq_rev = "none"
    /\ u_str = <<>> /\ enc = "none" /\ checked = TRUE
    /\ i = 0 /\ index = 0 /\ res = <<>> /\ ret = "none" /\ ub = "none"
    /\ dec = <<>>
    /\ cat_args = <<>> /\ cat_ret = <<"none", <<>>>>
    /\ nt_names = <<>> /\ nt_label = <<>> /\ get_ret = "none"
    /\ held = <<"none", <<>>>> /\ made_by = <<>>

\* The comparisons.
NextEq == CompareArray \/ CompareMetastr \/ CompareView

SpecEq == Init /\ [][NextEq]_vars

\* The transcodings to UTF-8.
NextCvt ==
    \/ code_cvt
    \/ utf32to8_loop
    \/ utf32to8_return
    \/ utf16to8_loop
    \/ utf16to8_return

SpecCvt == Init /\ [][NextCvt]_vars

\* The transcodings to UTF-8, and the decode step of utf16to8 on its own.
NextDecode == NextCvt \/ utf16to8_decode

SpecDecode == Init /\ [][NextDecode]_vars

\* The concatenations.
NextConcat == Concat

SpecConcat == Init /\ [][NextConcat]_vars

\* The label lookups.
NextGet == Get

SpecGet == Init /\ [][NextGet]_vars

\* The transcodings to UTF-8 of any buffer, and the compositions of
\* construction, code_cvt and concat.
NextCompose ==
    \/ NextCvt
    \/ Construct
    \/ CvtCopy
    \/ CvtToUtf8
    \/ CvtReturned
    \/ ConcatHeld

SpecCompose == Init /\ [][NextCompose]_vars

\* Every operation of the model.
Next == NextEq \/ NextDecode \/ NextConcat \/ NextGet \/ NextCompose

Spec == Init /\ [][Next]_vars

----------------------------------------------------------------------------
(* Claims about operator==.                                                *)

Min(a, b) == IF a <= b THEN a ELSE b

\* The rule of the specification for two buffers a and b: with
\* n = min(N, M) - 1, a[i] = b[i] for every i < n, and every unit at an
\* index >= n of the longer buffer (of both, when N = M) is zero.
PaddedEqual(a, b) ==
    LET n == Min(Len(a), Len(b)) - 1
    IN  /\ \A k \in 1..n : a[k] = b[k]
        /\ Len(a) >= Len(b) => \A k \in (n + 1)..Len(a) : a[k] = 0
        /\ Len(b) >= Len(a) => \A k \in (n + 1)..Len(b) : b[k] = 0

\* The rule of the specification for a buffer a and a view v of S units:
\* a[i] = v[i] for every i < min(N - 1, S), a[i] = 0 for S <= i < N and
\* v[i] = 0 for N - 1 <= i < S.
PaddedEqualView(a, v) ==
    LET m == Min(Len(a) - 1, Len(v))
    IN  /\ \A k \in 1..m : a[k] = v[k]
        /\ \A k \in (Len(v) + 1)..Len(a) : a[k] = 0
        /\ \A k \in Len(a)..Len(v) : v[k] = 0

\* C1: a metastring a of declared length N compared with a metastring or raw
\* literal b of declared length M is equal iff the first min(N, M) - 1 units
\* agree and the rest of the longer buffer is zero; two buffers of one length
\* that differ in one non-terminator unit are unequal.  Stated on the calls
\* whose pointer arithmetic is defined (N >= 2 and M >= 2).
C1_EqIffPaddedEqual ==
    (pc = "compared" /\ rhs_kind \in {"array", "metastr"}
        /\ Len(lhs) >= 2 /\ Len(rhs) >= 2)
    => (eq_ret = "true" <=> PaddedEqual(lhs, rhs))

\* C5: a metastring compared with a view or owned string of S units is equal
\* iff the first min(N - 1, S) units agree and the rest of the longer side is
\* zero; a view of the same content length that differs only in its last
\* character is unequal.  Stated on the calls whose pointer arithmetic is
\* defined (N >= 2 and S >= 1).
C5_ViewEqIffPaddedEqual ==
    (pc = "compared" /\ rhs_kind = "view" /\ Len(lhs) >= 2 /\ Len(rhs) >= 1)
    => (eq_ret = "true" <=> PaddedEqualView(lhs, rhs))

\* C8: operator== on metastrings is reflexive, the empty literal of declared
\* length 1 included, and symmetric.
C8_EqReflexiveSymmetric ==
    (pc = "compared" /\ rhs_kind = "metastr")
    => /\ lhs = rhs => eq_ret = "true"
       /\ eq_ret = eq_rev

----------------------------------------------------------------------------
(* Claims about the transcodings.                                          *)

\* A Unicode scalar value: in [0, 0x10FFFF] and outside [0xD800, 0xDFFF].
IsScalar(c) == c >= 0 /\ c <= 1114111 /\ ~(c >= 55296 /\ c <= 57343)

\* The standard UTF-8 encoding of the scalar c.
Utf8(c) ==
    IF c < 128 THEN <<c>>
    ELSE IF c < 2048 THEN <<192 + (c \div 64), 128 + (c % 64)>>
    ELSE IF c < 65536 THEN
        <<224 + (c \div 4096), 128 + ((c \div 64) % 64), 128 + (c % 64)>>
    ELSE <<240 + (c \div 262144), 128 + ((c \div 4096) % 64),
           128 + ((c \div 64) % 64), 128 + (c % 64)>>

RECURSIVE Utf8All(_)
\* The UTF-8 encodings of the scalars of cs, one after the other.
Utf8All(cs) == IF cs = <<>> THEN <<>> ELSE Utf8(Head(cs)) \o Utf8All(Tail(cs))

\* A continuation byte 10xxxxxx.
IsCont(b) == b >= 128 /\ b < 192

RECURSIVE Utf8Decode(_)
\* A reference UTF-8 decoder: the scalars of the bytes bs, with -1 from the
\* first byte on that starts no well-formed sequence.
Utf8Decode(bs) ==
    IF bs = <<>> THEN <<>>
    ELSE LET b == bs[1]
             n == Len(bs)
         IN  IF b < 128 THEN <<b>> \o Utf8Decode(Tail(bs))
             ELSE IF b >= 192 /\ b < 224 /\ n >= 2 /\ IsCont(bs[2])
             THEN <<(b - 192) * 64 + (bs[2] - 128)>>
                  \o Utf8Decode(SubSeq(bs, 3, n))
             ELSE IF b >= 224 /\ b < 240 /\ n >= 3
                     /\ IsCont(bs[2]) /\ IsCont(bs[3])
             THEN <<(b - 224) * 4096 + (bs[2] - 128) * 64 + (bs[3] - 128)>>
                  \o Utf8Decode(SubSeq(bs, 4, n))
             ELSE IF b >= 240 /\ b < 248 /\ n >= 4
                     /\ IsCont(bs[2]) /\ IsCont(bs[3]) /\ IsCont(bs[4])
             THEN <<(b - 240) * 262144 + (bs[2] - 128) * 4096
                    + (bs[3] - 128) * 64 + (bs[4] - 128)>>
                  \o Utf8Decode(SubSeq(bs, 5, n))
             ELSE <<-1>>

IsLead(u) == u >= 55296 /\ u <= 56319
IsTrail(u) == u >= 56320 /\ u <= 57343

\* Well-formed UTF-16: every lead surrogate is immediately followed by a
\* trail surrogate and every trail surrogate immediately preceded by a lead.
WellFormed16(s) ==
    \A k \in 1..Len(s) :
        /\ IsLead(s[k]) => (k < Len(s) /\ IsTrail(s[k + 1]))
        /\ IsTrail(s[k]) => (k > 1 /\ IsLead(s[k - 1]))

\* The scalar of the surrogate pair (lead, trail).
PairScalar(lead, trail) == 65536 + (lead - 55296) * 1024 + (trail - 56320)

RECURSIVE Scalars16(_)
\* The scalars of the well-formed UTF-16 units s.
Scalars16(s) ==
    IF s = <<>> THEN <<>>
    ELSE IF IsLead(s[1]) /\ Len(s) >= 2
    THEN <<PairScalar(s[1], s[2])>> \o Scalars16(SubSeq(s, 3, Len(s)))
    ELSE <<s[1]>> \o Scalars16(Tail(s))

\* The units the loop has written so far.
Emitted == SubSeq(res, 1, index)

\* C2: code_cvt from a UTF-32 metastring (a literal: its final slot is zero)
\* to UTF-8 emits, for every scalar value of the input and in input order, exactly its standard UTF-8 encoding (every
\* continuation byte is 0x80 OR-ed with 6 payload bits), so a reference
\* decoder gives the scalars back.
C2_Utf32EmitsStandardUtf8 ==
    (pc = "returned" /\ enc = "utf32" /\ ub = "none"
        /\ u_str[Len(u_str)] = 0
        /\ \A k \in 1..Len(u_str) : IsScalar(u_str[k]))
    => /\ Emitted = Utf8All(u_str)
       /\ Utf8Decode(Emitted) = u_str

\* C3: code_cvt from a UTF-16 metastring (a literal: its final slot is zero)
\* to UTF-8 turns every well-formed surrogate pair
\* into the 4-byte UTF-8 sequence of its scalar, consuming both units, and
\* every other unit into its 1-, 2- or 3-byte sequence.
C3_Utf16EmitsStandardUtf8 ==
    (pc = "returned" /\ enc = "utf16" /\ ub = "none"
        /\ u_str[Len(u_str)] = 0 /\ WellFormed16(u_str))
    => Emitted = Utf8All(Scalars16(u_str))

\* C6: in checked mode utf32to8 aborts iff some unit of the input lies in
\* [0xD800, 0xDFFF] or above 0x10FFFF; when it aborts nothing is returned, and
\* on valid scalars it never aborts.
C6_Utf32AbortsIffInvalid ==
    (enc = "utf32" /\ checked)
    => /\ pc = "terminated" => (ret = "none" /\ ~IsScalar(u_str[i + 1]))
       /\ pc = "utf32to8" => \A k \in 1..i : IsScalar(u_str[k])
       /\ pc \in {"returned", "fault"} =>
            \A k \in 1..Len(u_str) : IsScalar(u_str[k])

\* C6 witness: a checked utf32to8 has aborted on 0xD800 after a valid unit.
C6_Witness ==
    /\ pc = "terminated" /\ enc = "utf32" /\ checked
    /\ i >= 1 /\ u_str[i + 1] = 55296

\* C7: in checked mode utf16to8 aborts iff the input is not well-formed
\* UTF-16, a lead surrogate at the final position of the buffer included, and
\* it never reads the input at or past N.
C7_Utf16AbortsIffMalformed ==
    (enc = "utf16" /\ checked)
    => /\ ub # "read"
       /\ pc = "terminated" => (ret = "none" /\ ~WellFormed16(u_str))
       /\ pc \in {"returned", "fault"} => WellFormed16(u_str)

\* C7 witness: a checked utf16to8 has aborted on a lead surrogate that sits
\* at the final position of the buffer, after a well-formed prefix.
C7_Witness ==
    /\ pc = "terminated" /\ enc = "utf16" /\ checked
    /\ Len(u_str) >= 2 /\ i = Len(u_str) - 1
    /\ IsLead(u_str[Len(u_str)])
    /\ WellFormed16(SubSeq(u_str, 1, Len(u_str) - 1))

\* C10: the surrogate-pair decode step, in unsigned 32-bit arithmetic, gives
\* 0x10000 + ((lead - 0xD800) << 10) + (trail - 0xDC00), which lies in
\* [0x10000, 0x10FFFF], for every lead and trail in their ranges.
C10_SurrogateCombine ==
    \A k \in 1..Len(dec) :
        (IsLead(dec[k][1]) /\ IsTrail(dec[k][2]))
        => /\ dec[k][3] = PairScalar(dec[k][1], dec[k][2])
           /\ dec[k][3] >= 65536 /\ dec[k][3] <= 1114111

\* C10 witness: utf16to8 has decoded the pair (0xD83D, 0xDE00) to U+1F600 on
\* its way through a buffer.
C10_Witness ==
    /\ pc = "returned" /\ enc = "utf16"
    /\ \E k \in 1..Len(dec) : dec[k] = <<55357, 56832, 128512>>

----------------------------------------------------------------------------
(* Claims about concat and get.                                            *)

RECURSIVE ContentLen(_, _)
\* (L_1 - 1) + ... + (L_n - 1) for the first n buffers of strs
ContentLen(strs, n) ==
    IF n = 0 THEN 0 ELSE ContentLen(strs, n - 1) + (Len(strs[n]) - 1)

\* C4: concat of k >= 1 metastrings of declared lengths L_1..L_k returns a
\* metastring of capacity (L_1 - 1) + ... + (L_k - 1) + 1 holding input i's
\* first L_i - 1 units from offset (L_1 - 1) + ... + (L_(i-1) - 1) on, with a
\* zero final slot.
C4_ConcatLayout ==
    pc = "concatenated"
    => /\ cat_ret[1] = "metastr"
       /\ Len(cat_ret[2]) = ContentLen(cat_args, Len(cat_args)) + 1
       /\ \A j \in 1..Len(cat_args) :
            \A p \in 1..(Len(cat_args[j]) - 1) :
                cat_ret[2][ContentLen(cat_args, j - 1) + p] = cat_args[j][p]
       /\ cat_ret[2][Len(cat_ret[2])] = 0

\* C9: for a namedtuple with pairwise distinct names, get<label> returns the
\* slot whose name has exactly the code units of the label, and a label equal
\* to no name is rejected as index out of range.  Stated on names and labels
\* of at least one character, where the comparison's pointer arithmetic is
\* defined.
C9_GetResolvesExactName ==
    (pc = "got" /\ Len(nt_label) >= 2
        /\ \A k \in 1..Len(nt_names) : Len(nt_names[k]) >= 2)
    => IF \E k \in 1..Len(nt_names) : nt_names[k] = nt_label
       THEN get_ret[1] = "slot" /\ nt_names[get_ret[2] + 1] = nt_label
       ELSE get_ret[1] = "index out of range"

----------------------------------------------------------------------------
(* What the code does satisfy where C4 and C8 fail.                        *)

\* The layout of concat holds for every call with at least two arguments.
ConcatLayoutFromTwo ==
    (pc = "concatenated" /\ Len(cat_args) >= 2)
    => /\ cat_ret[1] = "metastr"
       /\ Len(cat_ret[2]) = ContentLen(cat_args, Len(cat_args)) + 1
       /\ \A j \in 1..Len(cat_args) :
            \A p \in 1..(Len(cat_args[j]) - 1) :
                cat_ret[2][ContentLen(cat_args, j - 1) + p] = cat_args[j][p]
       /\ cat_ret[2][Len(cat_ret[2])] = 0

\* operator== is reflexive and symmetric on metastrings of declared length
\* at least 2.
EqReflexiveSymmetricFromTwo ==
    (pc = "compared" /\ rhs_kind = "metastr" /\ Len(lhs) >= 2 /\ Len(rhs) >= 2)
    => /\ lhs = rhs => eq_ret = "true"
       /\ eq_ret = eq_rev

----------------------------------------------------------------------------
(* Claims about buffer bounds and the terminator.                          *)

\* The transcoding at hand was given a buffer whose final slot is zero, as
\* construction from a literal leaves it.
TerminatedInput == u_str # <<>> /\ u_str[Len(u_str)] = 0

\* C11: a transcoding of a buffer of declared length N whose final slot is
\* zero, with or without the checks and whatever the other units are, never
\* reads at or past N and never writes at or past 4 * N - 3, and the buffer
\* it returns ends in zero; and every metastr made by construction from a
\* literal followed by any code_cvt and concat calls ends in zero.
C11_BoundsAndTerminator ==
    /\ TerminatedInput =>
         /\ ub = "none"
         /\ pc # "fault"
         /\ i <= Len(u_str)
         /\ index <= Len(res)
         /\ index <= 4 * Len(u_str) - 3
         /\ pc = "returned" => ret[Len(ret)] = 0
    /\ held[1] # "none" => held[2][Len(held[2])] = 0

\* A UTF-32 concatenation of two largest scalars was transcoded: the loop
\* filled all 4 * 3 - 3 slots of res, the last one with the terminator, and
\* the returned buffer is the metastr at hand.
C11_Witness ==
    /\ pc = "made"
    /\ made_by = <<"concat", "code_cvt">>
    /\ enc = "utf32"
    /\ Len(u_str) = 3
    /\ index = Len(res)
    /\ index = 9
    /\ held[1] = "utf8"
    /\ held[2] = ret

====
